---- MODULE Spec2Model ----
(***************************************************************************)
(* pidata-speedtest.py: the CSV appender (write_csv and its header         *)
(* migration _ensure_csv_has_header), the device resolver of main and      *)
(* choose_device_interactive, and main's failure boundary.                 *)
(*                                                                         *)
(* A CSV file is the sequence of its lines, each line the sequence of its  *)
(* cells (csv.reader / csv.writer, every line written by csv.writer ends   *)
(* in a line terminator).  The file system is a table of inodes and the    *)
(* two names the code uses, path and path + ".tmp": os.replace renames an  *)
(* inode, and an open file object keeps the inode it was opened on.        *)
(***************************************************************************)
EXTENDS Integers, Sequences, FiniteSets, TLC

VARIABLES
    fieldnames,  \* the fieldnames argument of write_csv
    folder,      \* os.path.dirname(path): "" when path has no directory part
    dirExists,   \* os.path.exists(folder)
    inode,       \* inode number -> content (sequence of lines)
    name,        \* [path, tmp] -> inode number, 0 when no such file
    pr,          \* invocation -> locals and position of write_csv
    start,       \* history: invocation -> path and tmp content when it was called
    first,       \* history: the content of path before the first call
    done,        \* history: the records of the calls that returned, in order
    nfail,       \* history: the number of calls that ended in an I/O failure
    overlap,     \* history: an invocation took a step while another was inside write_csv
    mpc,         \* position of main ("off" when write_csv is driven directly)
    args,        \* argparse result: [device, device_arg]
    device,      \* main's device
    lines,       \* history: the lines input() returned to choose_device_interactive
    measured     \* history: "no", or how run_speedtest ended: "ok", "failed"

vars == <<fieldnames, folder, dirExists, inode, name, pr, start, first, done,
          nfail, overlap, mpc, args, device, lines, measured>>

fsvars == <<dirExists, inode, name>>
mainvars == <<mpc, args, device, lines, measured>>

(***************************************************************************)
(* Bounds of the model.                                                    *)
(***************************************************************************)
MaxRows == 2    \* data rows of the file found on disk
MaxCalls == 2   \* sequential calls of write_csv
MaxLines == 3   \* lines typed at the interactive prompt
NIno == 4       \* inode numbers available

Range(s) == {s[i] : i \in DOMAIN s}

(***************************************************************************)
(* Values.  None is Python's None; csv.writer writes it as the empty       *)
(* string and every other value as str(value).                             *)
(***************************************************************************)
NoneV == "<None>"
Hole == <<"<NUL>">>   \* the bytes a write past the end of a file leaves behind it

\* mutation: None is written as its name
StrKeepsNone(v) == v

Str(v) == IF v = NoneV THEN "" ELSE v

(***************************************************************************)
(* csv.DictReader                                                          *)
(***************************************************************************)
\* reader.fieldnames or []: the first line, [] for an empty file
ExistingFields(content) == IF Len(content) = 0 THEN <<>> ELSE content[1]

LastIndex(h, k) == CHOOSE i \in DOMAIN h : h[i] = k /\ \A j \in DOMAIN h : h[j] = k => j <= i

\* DictReader.__next__: dict(zip(fieldnames, row)); the keys a short row does
\* not reach get restval None.  The surplus cells of a long row go under the
\* key None, which no field name equals, and are left out here.
DictRow(h, line) ==
    [k \in Range(h) |-> IF LastIndex(h, k) <= Len(line) THEN line[LastIndex(h, k)] ELSE NoneV]

\* mutation: the first data row is taken for a second header line
ReadRowsSkipsFirst(content) ==
    [i \in 1..(Len(content) - 2) |-> DictRow(content[1], content[i + 2])]

\* rows = list(reader)
ReadRows(content) ==
    [i \in 1..(Len(content) - 1) |-> DictRow(content[1], content[i + 1])]

\* mutation: the header is compared with fieldnames as a list
HeaderEquals(existing, fns) == existing = fns

\* all(fn in existing_fields for fn in fieldnames)
HeaderComplete(existing, fns) == \A i \in DOMAIN fns : fns[i] \in Range(existing)

(***************************************************************************)
(* csv.DictWriter                                                          *)
(***************************************************************************)
\* DictWriter._dict_to_list + csv.writer: rowdict.get(key, restval="") per
\* field name, in fieldnames order
DictToList(fns, d) ==
    [i \in DOMAIN fns |-> Str(IF fns[i] \in DOMAIN d THEN d[fns[i]] ELSE "")]

\* the new_row of the migration loop
NewRow(r, fns, device_default) ==
    [fn \in Range(fns) |->
        IF fn \in DOMAIN r THEN r[fn]
        ELSE IF fn = "device" THEN device_default ELSE ""]

(***************************************************************************)
(* The file system                                                         *)
(***************************************************************************)
Procs == DOMAIN pr
Exists(n) == name[n] # 0
Content(n) == IF name[n] = 0 THEN <<>> ELSE inode[name[n]]
Snapshot == [exists |-> Exists("path"), path |-> Content("path"),
             tmpExists |-> Exists("tmp"), tmp |-> Content("tmp"),
             names |-> name, dir |-> dirExists]

Referenced(nm, prs) == {nm["path"], nm["tmp"]} \cup {prs[q].fd : q \in DOMAIN prs}

\* the lowest inode number no name and no open file refers to
FreeIno == CHOOSE k \in 1..NIno :
    /\ k \notin Referenced(name, pr)
    /\ \A j \in 1..NIno : j \notin Referenced(name, pr) => k <= j

\* an inode no name and no open file refers to is gone
Gc(ino, nm, prs) == [k \in 1..NIno |-> IF k \in Referenced(nm, prs) THEN ino[k] ELSE <<>>]

\* write one line through a file object opened with "w", at its own offset
WriteAt(content, off, line) ==
    IF off < Len(content) THEN [content EXCEPT ![off + 1] = line]
    ELSE content \o [j \in 1..(off - Len(content)) |-> Hole] \o <<line>>

Inside(q) == pr[q].pc \notin {"idle", "done", "crashed"}
Overlaps(p) == overlap \/ \E q \in Procs \ {p} : Inside(q)
Started == Len(done) + nfail + Cardinality({q \in Procs : Inside(q)})

EmptyDict == [k \in {} |-> ""]
Locals == [pc |-> "idle", row |-> EmptyDict, rows |-> <<>>, fd |-> 0, off |-> 0,
           i |-> 0, file_exists |-> FALSE]

(***************************************************************************)
(* write_csv(path, row, fieldnames)                                        *)
(***************************************************************************)
\* folder = os.path.dirname(path); makedirs when it is named and absent
MkDir(p) ==
    /\ pr[p].pc = "mkdir"
    /\ dirExists' = IF folder # "" /\ ~dirExists THEN TRUE ELSE dirExists
    /\ pr' = [pr EXCEPT ![p].pc = "exists"]
    /\ overlap' = Overlaps(p)
    /\ UNCHANGED <<fieldnames, folder, inode, name, start, first, done, nfail, mainvars>>

\* _ensure_csv_has_header: if not os.path.exists(path): return
CheckExists(p) ==
    /\ pr[p].pc = "exists"
    /\ pr' = [pr EXCEPT ![p].pc = IF Exists("path") THEN "read" ELSE "isfile"]
    /\ overlap' = Overlaps(p)
    /\ UNCHANGED <<fieldnames, folder, fsvars, start, first, done, nfail, mainvars>>

\* open(path), the header check, rows = list(reader)
ReadHeader(p) ==
    /\ pr[p].pc = "read"
    /\ Exists("path")
    /\ IF HeaderComplete(ExistingFields(Content("path")), fieldnames)
       THEN pr' = [pr EXCEPT ![p].pc = "isfile"]
       ELSE pr' = [pr EXCEPT ![p].pc = "tmpopen", ![p].rows = ReadRows(Content("path"))]
    /\ overlap' = Overlaps(p)
    /\ UNCHANGED <<fieldnames, folder, fsvars, start, first, done, nfail, mainvars>>

\* mutation: the migrated content is written over path itself
TmpOpenInPlace(p) ==
    /\ pr[p].pc = "tmpopen"
    /\ Exists("path")
    /\ inode' = [inode EXCEPT ![name["path"]] = <<>>]
    /\ pr' = [pr EXCEPT ![p].pc = "tmphdr", ![p].fd = name["path"], ![p].off = 0]
    /\ overlap' = Overlaps(p)
    /\ UNCHANGED <<fieldnames, folder, dirExists, name, start, first, done, nfail, mainvars>>

\* open(tmp_path, "w"): creates the file, or truncates the one that is there
TmpOpen(p) ==
    /\ pr[p].pc = "tmpopen"
    /\ LET k == IF Exists("tmp") THEN name["tmp"] ELSE FreeIno IN
        /\ name' = [name EXCEPT !["tmp"] = k]
        /\ inode' = [inode EXCEPT ![k] = <<>>]
        /\ pr' = [pr EXCEPT ![p].pc = "tmphdr", ![p].fd = k, ![p].off = 0]
    /\ overlap' = Overlaps(p)
    /\ UNCHANGED <<fieldnames, folder, dirExists, start, first, done, nfail, mainvars>>

\* writer.writeheader()
TmpHeader(p) ==
    /\ pr[p].pc = "tmphdr"
    /\ inode' = [inode EXCEPT ![pr[p].fd] = WriteAt(@, pr[p].off, fieldnames)]
    /\ pr' = [pr EXCEPT ![p].pc = "tmprow", ![p].off = @ + 1, ![p].i = 1]
    /\ overlap' = Overlaps(p)
    /\ UNCHANGED <<fieldnames, folder, dirExists, name, start, first, done, nfail, mainvars>>

\* one turn of "for r in rows": writer.writerow(new_row)
MigratedLine(r) == DictToList(fieldnames, NewRow(r, fieldnames, ""))

TmpRow(p) ==
    /\ pr[p].pc = "tmprow"
    /\ pr[p].i <= Len(pr[p].rows)
    /\ inode' = [inode EXCEPT ![pr[p].fd] = WriteAt(@, pr[p].off, MigratedLine(pr[p].rows[pr[p].i]))]
    /\ pr' = [pr EXCEPT ![p].off = @ + 1, ![p].i = @ + 1]
    /\ overlap' = Overlaps(p)
    /\ UNCHANGED <<fieldnames, folder, dirExists, name, start, first, done, nfail, mainvars>>

\* the end of the loop and of the with block: the temporary file is closed
TmpClose(p) ==
    /\ pr[p].pc = "tmprow"
    /\ pr[p].i > Len(pr[p].rows)
    /\ pr' = [pr EXCEPT ![p].pc = "replace", ![p].fd = 0]
    /\ inode' = Gc(inode, name, pr')
    /\ overlap' = Overlaps(p)
    /\ UNCHANGED <<fieldnames, folder, dirExists, name, start, first, done, nfail, mainvars>>

\* os.replace(tmp_path, path); FileNotFoundError when tmp_path is gone
Replace(p) ==
    /\ pr[p].pc = "replace"
    /\ IF Exists("tmp")
       THEN /\ name' = [path |-> name["tmp"], tmp |-> 0]
            /\ pr' = [pr EXCEPT ![p].pc = "isfile", ![p].rows = <<>>, ![p].off = 0, ![p].i = 0]
            /\ nfail' = nfail
       ELSE /\ name' = name
            /\ pr' = [pr EXCEPT ![p] = [Locals EXCEPT !.pc = "crashed"]]
            /\ nfail' = nfail + 1
    /\ inode' = Gc(inode, name', pr')
    /\ overlap' = Overlaps(p)
    /\ UNCHANGED <<fieldnames, folder, dirExists, start, first, done, mainvars>>

\* an I/O error while the temporary file is opened or written: nothing
\* catches it, the with block closes the file, the call ends
TmpFail(p) ==
    /\ pr[p].pc \in {"tmpopen", "tmphdr", "tmprow"}
    /\ pr' = [pr EXCEPT ![p] = [Locals EXCEPT !.pc = "crashed"]]
    /\ inode' = Gc(inode, name, pr')
    /\ nfail' = nfail + 1
    /\ overlap' = Overlaps(p)
    /\ UNCHANGED <<fieldnames, folder, dirExists, name, start, first, done, mainvars>>

\* file_exists = os.path.isfile(path)
IsFile(p) ==
    /\ pr[p].pc = "isfile"
    /\ pr' = [pr EXCEPT ![p].pc = "aopen", ![p].file_exists = Exists("path")]
    /\ overlap' = Overlaps(p)
    /\ UNCHANGED <<fieldnames, folder, fsvars, start, first, done, nfail, mainvars>>

\* open(path, "a"): creates the file when it is absent
AppendOpen(p) ==
    /\ pr[p].pc = "aopen"
    /\ LET k == IF Exists("path") THEN name["path"] ELSE FreeIno IN
        /\ name' = [name EXCEPT !["path"] = k]
        /\ pr' = [pr EXCEPT ![p].pc = "awrite", ![p].fd = k]
    /\ overlap' = Overlaps(p)
    /\ UNCHANGED <<fieldnames, folder, dirExists, inode, start, first, done, nfail, mainvars>>

\* mutation: the header is written on every append
AppendedLinesAlwaysHeader(file_exists, row) ==
    <<fieldnames>> \o <<DictToList(fieldnames, row)>>

\* if not file_exists: writer.writeheader(); writer.writerow(row); the file
\* is in append mode, so the lines land at its end, and is then closed
AppendedLines(file_exists, row) ==
    (IF file_exists THEN <<>> ELSE <<fieldnames>>) \o <<DictToList(fieldnames, row)>>

AppendRow(p) ==
    /\ pr[p].pc = "awrite"
    /\ pr' = [pr EXCEPT ![p] = [Locals EXCEPT !.pc = "done"]]
    /\ inode' = Gc([inode EXCEPT ![pr[p].fd] = @ \o AppendedLines(pr[p].file_exists, pr[p].row)],
                   name, pr')
    /\ done' = Append(done, pr[p].row)
    /\ overlap' = Overlaps(p)
    /\ UNCHANGED <<fieldnames, folder, dirExists, name, start, first, nfail, mainvars>>

(***************************************************************************)
(* The files write_csv may find on disk, and the records it is given       *)
(***************************************************************************)
Cell(tag, col) == tag \o "_" \o col

FieldOrders == {<<"device", "timestamp", "ping_ms">>, <<"device", "timestamp">>}

\* headers of files on disk: written before the device column was added,
\* the current one, the current one in another order, one with a further
\* column, and an old one with a column of its own
Headers == {<<"timestamp", "ping_ms">>,
            <<"device", "timestamp", "ping_ms">>,
            <<"timestamp", "device", "ping_ms">>,
            <<"device", "timestamp", "ping_ms", "note">>,
            <<"timestamp", "note">>}

RowKinds == {"a", "b", "short", "long"}

OldLine(h, kind) ==
    CASE kind = "short" -> <<Cell("s", h[1])>>
      [] kind = "long" -> [i \in 1..(Len(h) + 1) |-> IF i <= Len(h) THEN Cell("l", h[i]) ELSE "surplus"]
      [] OTHER -> [i \in DOMAIN h |-> Cell(kind, h[i])]

FilesWith(h) ==
    UNION {{<<h>> \o [i \in 1..n |-> OldLine(h, ks[i])] : ks \in [1..n -> RowKinds]} : n \in 0..MaxRows}

Files == {<<>>} \cup UNION {FilesWith(h) : h \in Headers}

FullRecord(fns, tag) == [k \in Range(fns) |-> Cell(tag, k)]

\* a record with every field, one whose last field is None, one without its first field
Records(fns) ==
    {FullRecord(fns, "u"),
     [FullRecord(fns, "v") EXCEPT ![fns[Len(fns)]] = NoneV],
     [k \in Range(fns) \ {fns[1]} |-> Cell("w", k)]}

NoSnapshot == [exists |-> FALSE, path |-> <<>>, tmpExists |-> FALSE, tmp |-> <<>>,
               names |-> [path |-> 0, tmp |-> 0], dir |-> FALSE]

MainOff ==
    /\ mpc = "off"
    /\ args = [device |-> <<>>, device_arg |-> <<>>]
    /\ device = <<>>
    /\ lines = <<>>
    /\ measured = "no"

\* path is absent, or holds one of Files (and then its folder exists)
InitDisk(files) ==
    /\ folder \in {"", "logs"}
    /\ dirExists \in BOOLEAN
    /\ folder = "" => dirExists
    /\ \E f \in files \cup {<<>>}, there \in BOOLEAN :
        /\ there => dirExists
        /\ name = [path |-> IF there THEN 1 ELSE 0, tmp |-> 0]
        /\ inode = [k \in 1..NIno |-> IF there /\ k = 1 THEN f ELSE <<>>]
        /\ ~there => f = <<>>

InitHistory ==
    /\ start = [p \in Procs |-> NoSnapshot]
    /\ first = Snapshot
    /\ done = <<>>
    /\ nfail = 0
    /\ overlap = FALSE

Init ==
    /\ fieldnames \in FieldOrders
    /\ InitDisk(Files)
    /\ pr = [p \in {1} |-> Locals]
    /\ InitHistory
    /\ MainOff

\* a call of write_csv(path, row, fieldnames)
Call(p) ==
    /\ mpc = "off"
    /\ ~Inside(p)
    /\ Started < MaxCalls
    /\ \E row \in Records(fieldnames) :
        pr' = [pr EXCEPT ![p] = [Locals EXCEPT !.pc = "mkdir", !.row = row]]
    /\ start' = [start EXCEPT ![p] = Snapshot]
    /\ overlap' = Overlaps(p)
    /\ UNCHANGED <<fieldnames, folder, fsvars, first, done, nfail, mainvars>>

Next ==
    \/ \E p \in Procs : Call(p)
    \/ \E p \in Procs : MkDir(p)
    \/ \E p \in Procs : CheckExists(p)
    \/ \E p \in Procs : ReadHeader(p)
    \/ \E p \in Procs : TmpOpen(p)
    \/ \E p \in Procs : TmpHeader(p)
    \/ \E p \in Procs : TmpRow(p)
    \/ \E p \in Procs : TmpClose(p)
    \/ \E p \in Procs : Replace(p)
    \/ \E p \in Procs : TmpFail(p)
    \/ \E p \in Procs : IsFile(p)
    \/ \E p \in Procs : AppendOpen(p)
    \/ \E p \in Procs : AppendRow(p)

Spec == Init /\ [][Next]_vars

(***************************************************************************)
(* Two invocations of write_csv on the same path, their steps interleaved  *)
(***************************************************************************)
ConcFiles == {<<<<"timestamp", "ping_ms">>, OldLine(<<"timestamp", "ping_ms">>, "a")>>,
              <<<<"device", "timestamp", "ping_ms">>>>}

ConcInit ==
    /\ fieldnames \in FieldOrders
    /\ InitDisk(ConcFiles)
    /\ pr = [p \in {1, 2} |-> Locals]
    /\ InitHistory
    /\ MainOff

ConcSpec == ConcInit /\ [][Next]_vars

(***************************************************************************)
(* Command-line strings are sequences of characters, so that strip(),      *)
(* isdigit() and int() are computed as Python computes them.  SUP2 is the  *)
(* character U+00B2 (superscript two): str.isdigit() accepts it, int()     *)
(* raises ValueError on it.                                                *)
(***************************************************************************)
DigitChars == <<"0", "1", "2", "3", "4", "5", "6", "7", "8", "9">>
SUP2 == "sup2"
NoneArg == <<"<None>">>

RECURSIVE Text(_)
Text(s) == IF Len(s) = 0 THEN "" ELSE s[1] \o Text(Tail(s))

RECURSIVE LStrip(_)
LStrip(s) == IF Len(s) > 0 /\ s[1] = " " THEN LStrip(Tail(s)) ELSE s

RECURSIVE RStrip(_)
RStrip(s) == IF Len(s) > 0 /\ s[Len(s)] = " " THEN RStrip(SubSeq(s, 1, Len(s) - 1)) ELSE s

\* str.strip()
Strip(s) == RStrip(LStrip(s))

\* str.isdigit(): not empty, every character a digit character
IsDigit(s) == Len(s) > 0 /\ \A i \in DOMAIN s : s[i] \in Range(DigitChars) \cup {SUP2}

\* int(s) raises ValueError unless every character is a decimal digit
IntRaises(s) == \E i \in DOMAIN s : s[i] \notin Range(DigitChars)

DigitVal(c) == (CHOOSE n \in DOMAIN DigitChars : DigitChars[n] = c) - 1

RECURSIVE IntOf(_)
IntOf(s) == IF Len(s) = 0 THEN 0 ELSE IntOf(SubSeq(s, 1, Len(s) - 1)) * 10 + DigitVal(s[Len(s)])

\* truth value of an argparse attribute: None and "" are false
Truthy(a) == a # NoneArg /\ Len(a) > 0

(***************************************************************************)
(* main                                                                    *)
(***************************************************************************)
devices == <<
    <<"T", "U", "C", "M", "O", "T", "O", "5">>,
    <<"T", "U", "C", "M", "O", "T", "O", "2">>,
    <<"Z", "y", "X", "E", "L", "2", "0", "5", "2", "2">> >>

UNKNOWN == <<"U", "N", "K", "N", "O", "W", "N">>

MainFieldnames == <<"device", "timestamp", "server_id", "server_name", "sponsor", "country",
                    "host", "lat", "lon", "ping_ms", "download_mbps", "upload_mbps",
                    "client_ip", "client_isp">>

\* the command lines and input lines tried
DeviceFlags == {NoneArg, devices[1], devices[3], <<"Z">>}

DeviceArgs == {NoneArg, <<>>, <<" ">>, <<"0">>, <<"1">>, <<"2">>, <<"3">>, <<"4">>,
               <<"0", "2">>, <<" ", "3", " ">>, <<"1", "2">>, <<SUP2>>, <<"Z">>,
               devices[1], devices[2], devices[3],
               <<"t", "u", "c", "m", "o", "t", "o", "5">>,
               <<"T", "U", "C", "M", "O", "T", "O">>}

InputLines == {<<>>, <<" ">>, <<"0">>, <<"2">>, <<"4">>, <<SUP2>>, <<"Z">>,
               <<" ", "T", "U", "C", "M", "O", "T", "O", "2", " ">>}

\* what run_speedtest returns: every field set, or the server fields None
\* (results.get(...) of a missing key)
MeasuredFields == Range(MainFieldnames) \ {"device"}

MeasuredRecords ==
    {[k \in MeasuredFields |-> Cell("m", k)],
     [k \in MeasuredFields |-> IF k \in {"server_id", "server_name", "lat", "lon"} THEN NoneV ELSE Cell("n", k)]}

\* files main may find: written by the version without the device column, or by this one
LegacyFieldnames == Tail(MainFieldnames)

MainFiles == {<<LegacyFieldnames>>,
              <<LegacyFieldnames, OldLine(LegacyFieldnames, "a"), OldLine(LegacyFieldnames, "b")>>,
              <<MainFieldnames>>,
              <<MainFieldnames, OldLine(MainFieldnames, "a")>>}

\* mutation: the index is checked against the upper end only, and
\* devices[idx - 1] of index 0 is Python's devices[-1], the last device
ResolvePositionalNoLowerBound(sel) ==
    IF IsDigit(sel)
    THEN IF IntRaises(sel) THEN [kind |-> "error", dev |-> <<>>]
         ELSE IF IntOf(sel) <= Len(devices)
              THEN [kind |-> "device",
                    dev |-> devices[IF IntOf(sel) = 0 THEN Len(devices) ELSE IntOf(sel)]]
              ELSE [kind |-> "invalid", dev |-> <<>>]
    ELSE IF sel \in Range(devices)
         THEN [kind |-> "device", dev |-> sel]
         ELSE [kind |-> "invalid", dev |-> <<>>]

\* what one selection string resolves to, in main's positional branch
ResolvePositional(sel) ==
    IF IsDigit(sel)
    THEN IF IntRaises(sel) THEN [kind |-> "error", dev |-> <<>>]
         ELSE IF 1 <= IntOf(sel) /\ IntOf(sel) <= Len(devices)
              THEN [kind |-> "device", dev |-> devices[IntOf(sel)]]
              ELSE [kind |-> "invalid", dev |-> <<>>]
    ELSE IF sel \in Range(devices)
         THEN [kind |-> "device", dev |-> sel]
         ELSE [kind |-> "invalid", dev |-> <<>>]

\* what one input line makes of a turn of choose_device_interactive's loop
ResolveLine(sel) ==
    IF Len(sel) = 0 THEN [kind |-> "device", dev |-> UNKNOWN]
    ELSE IF IsDigit(sel)
         THEN IF IntRaises(sel) THEN [kind |-> "error", dev |-> <<>>]
              ELSE IF 1 <= IntOf(sel) /\ IntOf(sel) <= Len(devices)
                   THEN [kind |-> "device", dev |-> devices[IntOf(sel)]]
                   ELSE [kind |-> "again", dev |-> <<>>]
         ELSE IF sel \in Range(devices)
              THEN [kind |-> "device", dev |-> sel]
              ELSE [kind |-> "again", dev |-> <<>>]

\* parser.parse_args(): --device takes one of choices=devices, anything else
\* ends the program in the parser
ParseArgs ==
    /\ mpc = "parse"
    /\ mpc' = IF args.device = NoneArg \/ args.device \in Range(devices) THEN "resolve" ELSE "usage"
    /\ UNCHANGED <<fieldnames, folder, fsvars, pr, start, first, done, nfail, overlap,
                   args, device, lines, measured>>

\* --device flag > positional arg > interactive prompt
Resolve ==
    /\ mpc = "resolve"
    /\ IF Truthy(args.device)
       THEN /\ device' = args.device
            /\ mpc' = "measure"
       ELSE IF Truthy(args.device_arg)
            THEN LET r == ResolvePositional(Strip(args.device_arg)) IN
                 /\ device' = r.dev
                 /\ mpc' = CASE r.kind = "device" -> "measure"
                             [] r.kind = "invalid" -> "aborted"
                             [] OTHER -> "crashed"
            ELSE /\ device' = device
                 /\ mpc' = "prompt"
    /\ UNCHANGED <<fieldnames, folder, fsvars, pr, start, first, done, nfail, overlap,
                   args, lines, measured>>

\* one turn of the loop of choose_device_interactive: the menu, input(), the checks
Prompt ==
    /\ mpc = "prompt"
    /\ Len(lines) < MaxLines
    /\ \E line \in InputLines :
        LET r == ResolveLine(Strip(line)) IN
        /\ lines' = Append(lines, line)
        /\ device' = r.dev
        /\ mpc' = CASE r.kind = "device" -> "measure"
                    [] r.kind = "again" -> "prompt"
                    [] OTHER -> "crashed"
    /\ UNCHANGED <<fieldnames, folder, fsvars, pr, start, first, done, nfail, overlap,
                   args, measured>>

\* try: row = run_speedtest(), which returns: row = {"device": device, **row}
\* and write_csv(args.output, row, fieldnames) is called
MainRow(rec) == [k \in {"device"} \cup DOMAIN rec |-> IF k = "device" THEN Text(device) ELSE rec[k]]

MeasureOk ==
    /\ mpc = "measure"
    /\ measured' = "ok"
    /\ mpc' = "write"
    /\ \E rec \in MeasuredRecords :
        pr' = [pr EXCEPT ![1] = [Locals EXCEPT !.pc = "mkdir", !.row = MainRow(rec)]]
    /\ start' = [start EXCEPT ![1] = Snapshot]
    /\ UNCHANGED <<fieldnames, folder, fsvars, first, done, nfail, overlap, args, device, lines>>

\* except Exception: print("Speedtest failed"), return
MeasureFails ==
    /\ mpc = "measure"
    /\ measured' = "failed"
    /\ mpc' = "aborted"
    /\ UNCHANGED <<fieldnames, folder, fsvars, pr, start, first, done, nfail, overlap,
                   args, device, lines>>

\* write_csv returned: the two prints
Saved ==
    /\ mpc = "write"
    /\ pr[1].pc = "done"
    /\ mpc' = "saved"
    /\ UNCHANGED <<fieldnames, folder, fsvars, pr, start, first, done, nfail, overlap,
                   args, device, lines, measured>>

\* write_csv raised: nothing in main catches it
Uncaught ==
    /\ mpc = "write"
    /\ pr[1].pc = "crashed"
    /\ mpc' = "crashed"
    /\ UNCHANGED <<fieldnames, folder, fsvars, pr, start, first, done, nfail, overlap,
                   args, device, lines, measured>>

MainInit ==
    /\ fieldnames = MainFieldnames
    /\ InitDisk(MainFiles)
    /\ pr = [p \in {1} |-> Locals]
    /\ InitHistory
    /\ mpc = "parse"
    /\ args \in [device : DeviceFlags, device_arg : DeviceArgs]
    /\ device = <<>>
    /\ lines = <<>>
    /\ measured = "no"

MainNext ==
    \/ ParseArgs
    \/ Resolve
    \/ Prompt
    \/ MeasureOk
    \/ MeasureFails
    \/ MkDir(1)
    \/ CheckExists(1)
    \/ ReadHeader(1)
    \/ TmpOpen(1)
    \/ TmpHeader(1)
    \/ TmpRow(1)
    \/ TmpClose(1)
    \/ Replace(1)
    \/ TmpFail(1)
    \/ IsFile(1)
    \/ AppendOpen(1)
    \/ AppendRow(1)
    \/ Saved
    \/ Uncaught

MainSpec == MainInit /\ [][MainNext]_vars

(***************************************************************************)
(* What the properties below speak of                                      *)
(***************************************************************************)
Returned(p) == pr[p].pc = "done"
OldHeader(p) == IF Len(start[p].path) = 0 THEN <<>> ELSE start[p].path[1]
OldRowCount(p) == IF Len(start[p].path) = 0 THEN 0 ELSE Len(start[p].path) - 1
\* the call of p found a file whose header lacks a name of fieldnames
Lacks(p) == start[p].exists /\ \E i \in DOMAIN fieldnames : fieldnames[i] \notin Range(OldHeader(p))
\* the call of p found a file whose header holds every name of fieldnames
Complete(p) == start[p].exists /\ \A i \in DOMAIN fieldnames : fieldnames[i] \in Range(OldHeader(p))
Pos(h, c) == CHOOSE i \in DOMAIN h : h[i] = c
\* the cells a record is expected to show, in fieldnames order
ExpectLine(rec) ==
    [j \in DOMAIN fieldnames |->
        IF fieldnames[j] \in DOMAIN rec /\ rec[fieldnames[j]] # NoneV THEN rec[fieldnames[j]] ELSE ""]
LastDone == done[Len(done)]
\* old row i of the call of p shows again as line i + 1 of new, name by name
RowsCarried(p, new) ==
    \A i \in 1..OldRowCount(p) :
        \A j \in DOMAIN OldHeader(p) :
            (j <= Len(start[p].path[i + 1]) /\ OldHeader(p)[j] \in Range(fieldnames))
                => new[i + 1][Pos(fieldnames, OldHeader(p)[j])] = start[p].path[i + 1][j]
WellFormed(c) == \A i \in 2..Len(c) : Len(c[i]) = Len(c[1])
FullyMigrated(c, k) ==
    /\ Len(c) = k + 1
    /\ c[1] = fieldnames
    /\ \A i \in 2..Len(c) : Len(c[i]) = Len(fieldnames)

\* C1 (as claimed): after write_csv returns from a call that found a header
\* lacking a name of fieldnames, the header is fieldnames, every old row keeps
\* every one of its old field values under the field's name, and the fields
\* the old header lacked are empty on every old row.
C1_MigrationKeepsOldValues ==
    \A p \in Procs : (Returned(p) /\ Lacks(p)) =>
        LET new == Content("path") IN
        /\ Len(new) >= OldRowCount(p) + 1
        /\ new[1] = fieldnames
        /\ \A i \in 1..OldRowCount(p) :
            /\ \A j \in DOMAIN OldHeader(p) :
                j <= Len(start[p].path[i + 1]) =>
                    /\ OldHeader(p)[j] \in Range(fieldnames)
                    /\ new[i + 1][Pos(fieldnames, OldHeader(p)[j])] = start[p].path[i + 1][j]
            /\ \A m \in DOMAIN fieldnames :
                fieldnames[m] \notin Range(OldHeader(p)) => new[i + 1][m] = ""

\* C2: a migration keeps the data rows in number and order: once the file is
\* replaced it holds the header and the k old rows, row i being old row i, and
\* when write_csv returns it holds k + 1 data rows, the new record last.
C2_MigrationKeepsRows ==
    \A p \in Procs : Lacks(p) =>
        LET new == Content("path") IN
        /\ pr[p].pc \in {"isfile", "aopen", "awrite"} =>
            /\ Len(new) = OldRowCount(p) + 1
            /\ RowsCarried(p, new)
        /\ Returned(p) =>
            /\ Len(new) = OldRowCount(p) + 2
            /\ RowsCarried(p, new)
            /\ new[Len(new)] = ExpectLine(LastDone)

C2_Witness ==
    \E p \in Procs :
        /\ Returned(p) /\ Lacks(p) /\ OldRowCount(p) = 2
        /\ start[p].path[2] # start[p].path[3]

\* C3: a call that finds a header holding every name of fieldnames never
\* opens, writes or renames the temporary file, leaves path the same file with
\* its content untouched until the append, and returns with exactly one line
\* added after the old content.
C3_NoRewrite ==
    \A p \in Procs : Complete(p) =>
        /\ pr[p].pc \notin {"tmpopen", "tmphdr", "tmprow", "replace", "crashed"}
        /\ name = start[p].names
        /\ Content("tmp") = start[p].tmp
        /\ Inside(p) => Content("path") = start[p].path
        /\ Returned(p) => Content("path") = start[p].path \o <<ExpectLine(LastDone)>>

C3_Witness ==
    \E p \in Procs :
        /\ Returned(p) /\ Complete(p)
        /\ OldHeader(p) # fieldnames
        /\ OldRowCount(p) >= 1

\* C4 (as claimed): from a log whose rows each hold one cell per header
\* column, every call that returns leaves every row with one cell per column
\* of the current header, and the new record's values under their own columns.
C4_EveryRowFitsHeader ==
    (~first.exists \/ (Len(first.path) >= 1 /\ WellFormed(first.path))) =>
        \A p \in Procs : Returned(p) =>
            LET c == Content("path") IN
            /\ WellFormed(c)
            /\ \A j \in DOMAIN fieldnames :
                /\ fieldnames[j] \in Range(c[1])
                /\ c[Len(c)][Pos(c[1], fieldnames[j])] = ExpectLine(LastDone)[j]

\* where C4 does hold: the file was absent, or its header was fieldnames itself
\* or lacked a name of fieldnames (and so was migrated to fieldnames)
C4_HoldsUnlessHeaderDiffers ==
    ((~first.exists \/ (Len(first.path) >= 1 /\ WellFormed(first.path)))
        /\ (first.exists =>
                (first.path[1] = fieldnames
                 \/ \E i \in DOMAIN fieldnames : fieldnames[i] \notin Range(first.path[1])))) =>
        \A p \in Procs : Returned(p) =>
            LET c == Content("path") IN
            /\ WellFormed(c)
            /\ c[1] = fieldnames
            /\ c[Len(c)] = ExpectLine(LastDone)

\* C5: N calls on a path that did not exist leave the folder in place and a
\* file of one header line and N data rows in call order, row i reading back
\* by name to record i (a missing or None field as the empty string).
C5_FreshRoundTrip ==
    (~first.exists /\ Len(done) >= 1 /\ \A p \in Procs : ~Inside(p)) =>
        LET c == Content("path") IN
        /\ dirExists
        /\ Len(c) = Len(done) + 1
        /\ c[1] = fieldnames
        /\ \A i \in 1..Len(done) :
            /\ c[i + 1] # fieldnames
            /\ Len(c[i + 1]) = Len(fieldnames)
            /\ \A k \in Range(fieldnames) :
                DictRow(c[1], c[i + 1])[k] =
                    (IF k \in DOMAIN done[i] /\ done[i][k] # NoneV THEN done[i][k] ELSE "")

C5_Witness ==
    /\ ~first.exists /\ ~first.dir /\ folder # ""
    /\ Len(done) = 2 /\ done[1] # done[2]
    /\ \E k \in Range(fieldnames) : k \notin DOMAIN done[1] \/ done[1][k] = NoneV
    /\ \A p \in Procs : ~Inside(p)

\* C9: through a migration, and after a failure while the temporary file is
\* written, path is the old file with its old content; the temporary file is
\* complete before it is renamed; after the rename path holds the complete
\* migrated content.
C9_OriginalNeverPartial ==
    \A p \in Procs : Lacks(p) =>
        /\ pr[p].pc \in {"mkdir", "exists", "read", "tmpopen", "tmphdr", "tmprow", "replace", "crashed"} =>
            /\ name["path"] = start[p].names["path"]
            /\ Content("path") = start[p].path
        /\ pr[p].pc = "replace" => FullyMigrated(Content("tmp"), OldRowCount(p))
        /\ pr[p].pc \in {"isfile", "aopen", "awrite"} => FullyMigrated(Content("path"), OldRowCount(p))

C9_Witness ==
    \E p \in Procs :
        /\ Lacks(p) /\ pr[p].pc = "crashed"
        /\ OldRowCount(p) = 2
        /\ Len(Content("tmp")) = 2
        /\ Content("path") = start[p].path

(***************************************************************************)
(* main: what the properties below speak of                                *)
(***************************************************************************)
PositionalGiven == args.device = NoneArg /\ args.device_arg # NoneArg
Decided == mpc \notin {"parse", "resolve"}
PurelyNumeric(s) == Len(s) > 0 /\ \A i \in DOMAIN s : s[i] \in Range(DigitChars)
InRange(s) == PurelyNumeric(s) /\ 1 <= IntOf(s) /\ IntOf(s) <= Len(devices)
DiskUntouched ==
    /\ name = first.names
    /\ Content("path") = first.path
    /\ Content("tmp") = first.tmp
    /\ dirExists = first.dir
\* the run ended with no measurement, no call of write_csv and nothing written
AbortedNoFile ==
    /\ mpc \in {"aborted", "crashed"}
    /\ measured = "no"
    /\ pr[1].pc = "idle"
    /\ DiskUntouched
\* the selection resolved to d: the run went on to the measurement with it
ResolvedTo(d) == device = d /\ (mpc = "measure" \/ measured # "no")

\* C6 (as claimed): with no --device flag, a positional argument that is a
\* number k in 1..len(devices) resolves to devices[k-1], any other number
\* aborts with no file written, a catalog name resolves to itself, and any
\* other argument aborts with no file written.
C6_PositionalResolution ==
    (PositionalGiven /\ Decided) =>
        LET sel == Strip(args.device_arg) IN
        IF PurelyNumeric(sel)
        THEN IF InRange(sel) THEN ResolvedTo(devices[IntOf(sel)]) ELSE AbortedNoFile
        ELSE IF sel \in Range(devices) THEN ResolvedTo(sel) ELSE AbortedNoFile

\* the same for the arguments main takes as given (not None, not "")
C6_NonEmptyPositionalResolution ==
    (PositionalGiven /\ Len(args.device_arg) > 0 /\ Decided) =>
        LET sel == Strip(args.device_arg) IN
        IF PurelyNumeric(sel)
        THEN IF InRange(sel) THEN ResolvedTo(devices[IntOf(sel)]) ELSE AbortedNoFile
        ELSE IF sel \in Range(devices) THEN ResolvedTo(sel) ELSE AbortedNoFile

C6_EmptyArgumentPrompts ==
    /\ PositionalGiven /\ Len(args.device_arg) = 0
    /\ mpc = "saved" /\ device = UNKNOWN

SelectionInvalid ==
    /\ args.device = NoneArg
    /\ Truthy(args.device_arg)
    /\ Strip(args.device_arg) \notin Range(devices)
    /\ ~InRange(Strip(args.device_arg))

ValidLine(l) == Len(Strip(l)) = 0 \/ InRange(Strip(l)) \/ Strip(l) \in Range(devices)
LineDevice(l) ==
    IF Len(Strip(l)) = 0 THEN UNKNOWN
    ELSE IF InRange(Strip(l)) THEN devices[IntOf(Strip(l))] ELSE Strip(l)

\* C8 (as claimed): choose_device_interactive returns at the first line that
\* is empty, an index in range or a catalog name, with the label that line
\* names; every other line leaves it prompting.
C8_PromptReturnsAtFirstValidLine ==
    Len(lines) >= 1 =>
        /\ \A i \in 1..(Len(lines) - 1) : ~ValidLine(lines[i])
        /\ IF ValidLine(lines[Len(lines)])
           THEN /\ mpc # "prompt"
                /\ device = LineDevice(lines[Len(lines)])
                /\ device \in Range(devices) \cup {UNKNOWN}
           ELSE mpc = "prompt"

\* where C8 does hold: no line so far is made of digit characters int() rejects
C8_HoldsForDecimalLines ==
    (Len(lines) >= 1 /\ \A i \in DOMAIN lines : ~(IsDigit(Strip(lines[i])) /\ IntRaises(Strip(lines[i])))) =>
        /\ \A i \in 1..(Len(lines) - 1) : ~ValidLine(lines[i])
        /\ IF ValidLine(lines[Len(lines)])
           THEN /\ mpc # "prompt"
                /\ device = LineDevice(lines[Len(lines)])
                /\ device \in Range(devices) \cup {UNKNOWN}
           ELSE mpc = "prompt"

(***************************************************************************)
(* Two invocations: what the property below speaks of                      *)
(***************************************************************************)
Quiet == \A p \in Procs : ~Inside(p)
FirstRowCount == IF Len(first.path) = 0 THEN 0 ELSE Len(first.path) - 1
\* one header, the rows that were there, and one row for every call that returned
LogIntact ==
    LET c == Content("path") IN
    /\ Len(c) = 1 + FirstRowCount + Len(done)
    /\ \A i \in 2..Len(c) : c[i] # fieldnames
    /\ \A i \in 1..Len(done) : \E j \in 2..Len(c) : c[j] = ExpectLine(done[i])

\* C10: the log can end without one header and a row for every call that
\* returned, and when it does, two invocations overlapped: calls that run
\* one after the other always leave it intact.
C10_CorruptionOnlyByInterleaving ==
    (Quiet /\ Len(done) >= 1 /\ ~LogIntact) => overlap

\* a row is lost: both calls returned, and one record is nowhere in the file
C10_RowLost ==
    /\ Quiet /\ nfail = 0 /\ Len(done) = 2 /\ overlap
    /\ \E i \in 1..2 : \A j \in 1..Len(Content("path")) : Content("path")[j] # ExpectLine(done[i])

\* the header is written twice: both calls saw the file as absent
C10_HeaderTwice ==
    /\ Quiet /\ nfail = 0 /\ Len(done) = 2 /\ overlap
    /\ ~first.exists
    /\ \E j \in 2..Len(Content("path")) : Content("path")[j] = fieldnames

====
